---- MODULE Spec2Model ----
(***************************************************************************)
(* Movie recommendation engine: data_loader.load_data, the two functions   *)
(* of recommender.py and the hybrid branch of app.main.                    *)
(*                                                                         *)
(* Conventions.  Catalog rows are numbered 1..NumMovies here; pandas row r *)
(* is row r+1, and, as in MovieLens u.item, the movie of row i has         *)
(* movie_id i.  A Python list is a sequence.  A call that raises is        *)
(* recorded as [raised |-> <exception name>]; a call that returns has      *)
(* raised = "none".                                                        *)
(***************************************************************************)
EXTENDS Integers, Sequences, FiniteSets, TLC

\* ------------------------------------------------------------------ bounds
NumMovies == 3
MaxK == 3
MaxSim == 1

\* ------------------------------------------------------- program constants
NComponents == 12
MinRecs == 3
MaxRecs == 15
SliderSteps == 10

VARIABLES movies_df, ratings_df, similarity_matrix, indices,
          op, raised, user_id, selected_movie, num_recommendations, hybrid_weight,
          recommendations,
          collab_recs, content_recs, collab_count, content_count, hybrid_recs

vars == <<movies_df, ratings_df, similarity_matrix, indices,
          op, raised, user_id, selected_movie, num_recommendations, hybrid_weight,
          recommendations,
          collab_recs, content_recs, collab_count, content_count, hybrid_recs>>

data == <<movies_df, ratings_df, similarity_matrix, indices>>

\* ----------------------------------------------------------------- helpers
Min2(a, b) == IF a < b THEN a ELSE b
Max2(a, b) == IF a > b THEN a ELSE b

SeqRange(s) == {s[i] : i \in DOMAIN s}

\* Python s[a:b] (step 1), negative bounds counted from the end.
PyNorm(x, n) == IF x < 0 THEN Max2(x + n, 0) ELSE Min2(x, n)
PySlice(s, a, b) ==
    LET lo == PyNorm(a, Len(s))
        hi == PyNorm(b, Len(s))
    IN  IF hi > lo THEN SubSeq(s, lo + 1, hi) ELSE <<>>

\* The subsequence of s whose elements satisfy membership in keep.
RECURSIVE SelectIn(_, _)
SelectIn(s, keep) ==
    IF s = <<>> THEN <<>>
    ELSE IF Head(s) \in keep THEN <<Head(s)>> \o SelectIn(Tail(s), keep)
         ELSE SelectIn(Tail(s), keep)

\* ------------------------------------------------------------ the data set
Rows == 1..NumMovies
TitleNames == <<"Alpha", "Beta", "Gamma", "Delta", "Epsilon">>
NoSuchTitle == "Nonexistent"

\* Title assignments up to renaming: row 1 carries the first name and a row
\* carries either a name already used or the next unused one.
Canonical(c) ==
    /\ c[1] = 1
    /\ \A i \in 2..NumMovies : \E j \in 1..(i - 1) : c[i] <= c[j] + 1
Catalogs ==
    { [i \in Rows |-> [movie_id |-> i, title |-> TitleNames[c[i]]]] :
        c \in {c \in [Rows -> Rows] : Canonical(c)} }

\* linear_kernel of the L2-normalised TF-IDF rows: symmetric, and no entry
\* of a row exceeds the row's diagonal entry.
\* A movie with genres has the top score MaxSim (1.0) with itself, one
\* without has 0 with every movie.
SimMatrices ==
    LET pairs == {p \in Rows \X Rows : p[1] < p[2]}
        Matrix(d, f) ==
            [i \in Rows |-> [j \in Rows |->
                IF i = j THEN d[i] ELSE IF i < j THEN f[<<i, j>>] ELSE f[<<j, i>>]]]
        Below(d) == {f \in [pairs -> 0..MaxSim] :
                        \A p \in pairs : f[p] <= d[p[1]] /\ f[p] <= d[p[2]]}
    IN  UNION { {Matrix(d, f) : f \in Below(d)} : d \in [Rows -> {0, MaxSim}] }

\* data_loader.load_data line 49.  A pandas Series is a sequence of
\* <<label, value>>; Series.drop_duplicates keeps the first entry of every
\* VALUE (the labels play no part).
DropDuplicates(series) ==
    LET keep == {i \in DOMAIN series :
                    \A j \in 1..(i - 1) : series[j][2] # series[i][2]}
        RECURSIVE Build(_)
        Build(i) == IF i > Len(series) THEN <<>>
                    ELSE IF i \in keep THEN <<series[i]>> \o Build(i + 1)
                         ELSE Build(i + 1)
    IN  Build(1)
BuildIndices(df) == DropDuplicates([i \in DOMAIN df |-> <<df[i].title, i>>])

\* data_loader.get_movies_list: the unique titles (sorting is immaterial to
\* what a selectbox can hand to the engine).
get_movies_list(df) == {df[i].title : i \in DOMAIN df}

\* ----------------------------------------------------- content-based path
\* sorted(list(enumerate(row)), key=lambda x: x[1], reverse=True): Python's
\* sort is stable also under reverse=True, so equal scores keep row order.
\* The result lists the row numbers.
SortedDesc(row) ==
    LET n == Len(row)
        Pos(j) == 1 + Cardinality({i \in 1..n :
                        row[i] > row[j] \/ (row[i] = row[j] /\ i < j)})
    IN  [p \in 1..n |-> CHOOSE j \in 1..n : Pos(j) = p]

\* indices[title]: the rows stored under the label.
IndexLookup(ind, t) == SelectIn([i \in DOMAIN ind |-> IF ind[i][1] = t THEN ind[i][2] ELSE 0],
                                Rows)

Returned(rows, df) == [raised |-> "none", rows |-> rows,
                       titles |-> [i \in DOMAIN rows |-> df[rows[i]].title]]
Raised(e) == [raised |-> e, rows |-> <<>>, titles |-> <<>>]

\* get_content_based_recommendations without the membership test of line 41
ContentRecsNoMembershipTest(t, df, sim, ind, k) ==
    LET idx == IndexLookup(ind, t)
    IN  IF Len(idx) # 1 THEN Raised(IF idx = <<>> THEN "KeyError" ELSE "ValueError")
        ELSE Returned(PySlice(SortedDesc(sim[idx[1]]), 1, k + 1), df)
\* recommender.get_content_based_recommendations
get_content_based_recommendations(t, df, sim, ind, k) ==
    LET idx == IndexLookup(ind, t)
    IN  IF idx = <<>> THEN Returned(<<>>, df)
        ELSE IF Len(idx) > 1
             \* idx is a Series: similarity_matrix[idx] is 2-D, the sort key
             \* is an array and comparing two of them raises.
             THEN Raised("ValueError")
             ELSE LET sim_scores == SortedDesc(sim[idx[1]])
                      movie_indices == PySlice(sim_scores, 1, k + 1)
                  IN  Returned(movie_indices, df)

\* ------------------------------------------------------ collaborative path
\* ratings_df is the set of its <<user_id, movie_id>> rows; the rating value
\* only enters the scores of lines 13-21, which are an input here.
PivotIndex(rat) == {r[2] : r \in rat}
PivotColumns(rat) == {r[1] : r \in rat}

\* TruncatedSVD(n_components=12).fit_transform raises ValueError when the
\* matrix has fewer than n_components columns (users); with fewer rows
\* (movies) it returns fewer components and the call goes on.
SVDRaises(rat) == NComponents > Cardinality(PivotColumns(rat))

RECURSIVE Perms(_)
Perms(S) == IF S = {} THEN {<<>>}
            ELSE UNION {{<<x>> \o p : p \in Perms(S \ {x})} : x \in S}

\* Lines 13-24: the index of the scores sorted descending (recommendations).
\* The scores come out of the factorisation of the rating values, so any
\* order of the pivot index is an outcome.
SortValuesOutcomes(rat) == Perms(PivotIndex(rat))

\* DropRated without the drop
DropRatedKeepsAll(order, rated) == order
\* recommendations.drop(rated_movies, errors='ignore')
DropRated(order, rated) == SelectIn(order, SeqRange(order) \ rated)

\* Head_ without the cut
HeadKeepsAll(s, n) == s
\* Series.head(n) is iloc[:n]
Head_(s, n) == PySlice(s, 0, n)

\* movies_df[movies_df['movie_id'].isin(top)]: the catalog rows whose id is
\* in top, in catalog order.
IsIn(df, top) == SelectIn([i \in DOMAIN df |-> i], {i \in DOMAIN df : df[i].movie_id \in top})

\* recommender.get_collaborative_recommendations; out is the outcome of
\* lines 13-24 for this rating store.
get_collaborative_recommendations(u, rat, df, k, out) ==
    IF SVDRaises(rat) THEN Raised("ValueError")
    ELSE IF u \notin PivotColumns(rat) THEN Raised("KeyError")
    ELSE LET rated_movies == {r[2] : r \in {x \in rat : x[1] = u}}
             remaining == DropRated(out, rated_movies)
             top_recommendations == Head_(remaining, k)
             rec_movies == IsIn(df, SeqRange(top_recommendations))
         IN  Returned(rec_movies, df)

\* What lines 13-24 can produce for a call: nothing when the call raises
\* before or at line 20.
CallOutcomes(rat, u) ==
    IF SVDRaises(rat) \/ u \notin PivotColumns(rat)
    THEN {<<>>}
    ELSE SortValuesOutcomes(rat)

\* ------------------------------------------------- Python float arithmetic
\* A non-negative IEEE-754 double is held exactly, as a count of 2^-56 in
\* three limbs <<low, middle, high>> of 20 bits (TLC's integers have 32).  Every double met here (n/10, 1 - n/10 and small multiples) is such a
\* count, and a result is rounded to 53 significant bits, ties to even.
LimbBase == 2^20
FxOne == <<0, 0, 2^16>>

BitLen(x) == CHOOSE b \in 0..30 : x < 2^b /\ (b = 0 \/ x >= 2^(b - 1))

FxAddSmall(f, a) ==
    LET s1 == f[1] + a
        s2 == f[2] + (s1 \div LimbBase)
    IN  <<s1 % LimbBase, s2 % LimbBase, f[3] + (s2 \div LimbBase)>>

FxMulSmall(f, k) ==
    LET p1 == f[1] * k
        p2 == f[2] * k + (p1 \div LimbBase)
    IN  <<p1 % LimbBase, p2 % LimbBase, f[3] * k + (p2 \div LimbBase)>>

\* f - g for f >= g
FxSub(f, g) ==
    LET d1 == f[1] - g[1]
        b1 == IF d1 < 0 THEN 1 ELSE 0
        d2 == f[2] - g[2] - b1
        b2 == IF d2 < 0 THEN 1 ELSE 0
    IN  <<d1 + b1 * LimbBase, d2 + b2 * LimbBase, f[3] - g[3] - b2>>

\* <<quotient, remainder>> of f by the small number d
FxDivSmall(f, d) ==
    LET q3 == f[3] \div d
        r3 == f[3] % d
        n2 == r3 * LimbBase + f[2]
        q2 == n2 \div d
        r2 == n2 % d
        n1 == r2 * LimbBase + f[1]
    IN  <<(<<n1 \div d, q2, q3>>), n1 % d>>

\* The double nearest to f + r/d (0 <= r < d): round to 53 significant bits,
\* ties to even.
FxRound53(f, r, d) ==
    LET s == Max2(BitLen(f[3]) - 13, 0)
        rem == f[1] % (2^s)
        odd == (f[1] \div (2^s)) % 2 = 1
        twice == 2 * (d * rem + r)
        up == twice > d * (2^s) \/ (twice = d * (2^s) /\ odd)
    IN  FxAddSmall(<<f[1] - rem, f[2], f[3]>>, IF up THEN 2^s ELSE 0)

\* The slider value n/10 as a float
FloatTenths(n) ==
    LET qr == FxDivSmall(<<0, 0, n * (2^16)>>, SliderSteps)
    IN  FxRound53(qr[1], qr[2], SliderSteps)
\* 1 - w
FloatOneMinus(w) == FxRound53(FxSub(FxOne, w), 0, 1)
\* k * x for an int k >= 0
FloatTimes(k, x) == FxRound53(FxMulSmall(x, k), 0, 1)
\* int(x): truncation
PyInt(x) == x[3] \div (2^16)

\* CollabCount with the weight taken for its complement
CollabCountOfWeight(k, w) == PyInt(FloatTimes(k, FloatTenths(w)))
\* app.py line 383: int(num_recommendations * (1 - hybrid_weight)), the
\* weight given in tenths.
CollabCount(k, w) == PyInt(FloatTimes(k, FloatOneMinus(FloatTenths(w))))

\* ------------------------------------------------------------------- state
NoCall == [raised |-> "none", rows |-> <<>>, titles |-> <<>>]

Idle ==
    /\ op = "loaded"
    /\ raised = "none"
    /\ user_id = 0
    /\ selected_movie = ""
    /\ num_recommendations = 0
    /\ hybrid_weight = 0
    /\ recommendations = <<>>
    /\ collab_recs = NoCall
    /\ content_recs = NoCall
    /\ collab_count = 0
    /\ content_count = 0
    /\ hybrid_recs = <<>>

\* data_loader.load_data, cached by app.cached_load_data
InitData(cat, sim, rat) ==
    /\ movies_df = cat
    /\ ratings_df = rat
    /\ similarity_matrix = sim
    /\ indices = BuildIndices(cat)
    /\ Idle

KValues == (0 - 2)..MaxK
QueryTitles == {TitleNames[i] : i \in Rows} \cup {NoSuchTitle}
UserIds == {1, 2}

\* Streamlit runs app.main again on every interaction: the locals of the
\* previous run are gone, the cached data set stays.
Rerun ==
    /\ op # "loaded"
    /\ op' = "loaded"
    /\ raised' = "none"
    /\ user_id' = 0
    /\ selected_movie' = ""
    /\ num_recommendations' = 0
    /\ hybrid_weight' = 0
    /\ recommendations' = <<>>
    /\ collab_recs' = NoCall
    /\ content_recs' = NoCall
    /\ collab_count' = 0
    /\ content_count' = 0
    /\ hybrid_recs' = <<>>
    /\ UNCHANGED data

\* app.main, collaborative branch (lines 225-229)
Collaborative(u, k, out) ==
    /\ op' = "collaborative"
    /\ user_id' = u
    /\ num_recommendations' = k
    /\ recommendations' = out
    /\ collab_recs' = get_collaborative_recommendations(u, ratings_df, movies_df, k, out)
    /\ raised' = collab_recs'.raised
    /\ selected_movie' = ""
    /\ hybrid_weight' = 0
    /\ content_recs' = NoCall
    /\ collab_count' = 0
    /\ content_count' = 0
    /\ hybrid_recs' = <<>>
    /\ UNCHANGED data

\* app.main, content-based branch (lines 318-322)
ContentBased(t, k) ==
    /\ op' = "content"
    /\ selected_movie' = t
    /\ num_recommendations' = k
    /\ content_recs' = get_content_based_recommendations(
                           t, movies_df, similarity_matrix, indices, k)
    /\ raised' = content_recs'.raised
    /\ user_id' = 0
    /\ hybrid_weight' = 0
    /\ recommendations' = <<>>
    /\ collab_recs' = NoCall
    /\ collab_count' = 0
    /\ content_count' = 0
    /\ hybrid_recs' = <<>>
    /\ UNCHANGED data

\* ExtendUnique testing against the collaborative part only
ExtendUnlessInCollab(acc, recs) == acc \o SelectIn(recs, SeqRange(recs) \ SeqRange(acc))
\* ExtendUnique without the membership test of line 388
ExtendAll(acc, recs) == acc \o recs
\* app.py lines 382-389: the collaborative titles up to collab_count, then
\* every content title up to content_count that the list does not hold yet.
RECURSIVE ExtendUnique(_, _)
ExtendUnique(acc, recs) ==
    IF recs = <<>> THEN acc
    ELSE IF Head(recs) \in SeqRange(acc) THEN ExtendUnique(acc, Tail(recs))
         ELSE ExtendUnique(Append(acc, Head(recs)), Tail(recs))
MergeHybrid(collab, content, cc, nc) ==
    ExtendUnique(PySlice(collab, 0, cc), PySlice(content, 0, nc))

\* app.main, hybrid branch (lines 376-389).  An exception of either call
\* ends the handler.
Hybrid(u, t, k, w, out) ==
    LET collab == get_collaborative_recommendations(u, ratings_df, movies_df, k, out)
        content == get_content_based_recommendations(
                       t, movies_df, similarity_matrix, indices, k)
        cc == CollabCount(k, w)
    IN  /\ op' = "hybrid"
        /\ user_id' = u
        /\ selected_movie' = t
        /\ num_recommendations' = k
        /\ hybrid_weight' = w
            /\ recommendations' = out
        /\ collab_recs' = collab
        /\ IF collab.raised # "none"
           THEN /\ raised' = collab.raised
                /\ content_recs' = NoCall
                /\ collab_count' = 0
                /\ content_count' = 0
                /\ hybrid_recs' = <<>>
           ELSE /\ content_recs' = content
                /\ IF content.raised # "none"
                   THEN /\ raised' = content.raised
                        /\ collab_count' = 0
                        /\ content_count' = 0
                        /\ hybrid_recs' = <<>>
                   ELSE /\ raised' = "none"
                        /\ collab_count' = cc
                        /\ content_count' = k - cc
                        /\ hybrid_recs' = MergeHybrid(collab.titles, content.titles,
                                                      cc, k - cc)
        /\ UNCHANGED data

\* ------------------------------------------------------------ the data sets
\* Rating stores: user 1 has rated r1; crowd users 2..crowd+1 have each
\* rated rc.
RatingsOf(r1, crowd, rc) ==
    {<<1, m>> : m \in r1} \cup {<<u, m>> : u \in 2..(crowd + 1), m \in rc}
CrowdSizes == {1, NComponents + 1}
RatingStores ==
    { RatingsOf(r1, c, rc) :
        r1 \in SUBSET Rows, c \in CrowdSizes, rc \in {Rows, Rows \ {NumMovies}} }

\* Every movie has its own genres.
SimDistinct == [i \in Rows |-> [j \in Rows |-> IF i = j THEN MaxSim ELSE 0]]

\* A run of app.main serves one request on the loaded data.
InitContent == \E cat \in Catalogs : \E sim \in SimMatrices : InitData(cat, sim, {})
NextContent ==
    \/ Rerun
    \/ /\ op = "loaded"
       /\ \E t \in QueryTitles : \E k \in KValues : ContentBased(t, k)
SpecContent == InitContent /\ [][NextContent]_vars

InitCollab == \E cat \in Catalogs : \E rat \in RatingStores : InitData(cat, SimDistinct, rat)
NextCollab ==
    \/ Rerun
    \/ /\ op = "loaded"
       /\ \E u \in UserIds : \E out \in CallOutcomes(ratings_df, u) :
             \E k \in KValues : Collaborative(u, k, out)
SpecCollab == InitCollab /\ [][NextCollab]_vars

\* All movies with the same genres; and rows 1 and 2 with the same genres,
\* every other movie with genres of its own.
SimFlat == [i \in Rows |-> [j \in Rows |-> MaxSim]]
SimFirstPair ==
    [i \in Rows |-> [j \in Rows |->
        IF i = j \/ {i, j} = {1, 2} THEN MaxSim ELSE 0]]
FacadeSims == {SimDistinct, SimFlat, SimFirstPair}
FacadeStores == {RatingsOf(r1, c, Rows) : r1 \in {{}, {1}}, c \in CrowdSizes}
Weights == 0..SliderSteps

Init == \E cat \in Catalogs : \E sim \in FacadeSims : \E rat \in FacadeStores :
            InitData(cat, sim, rat)
Next ==
    \/ Rerun
    \/ /\ op = "loaded"
       /\ \E u \in UserIds : \E out \in CallOutcomes(ratings_df, u) :
             \E k \in KValues : Collaborative(u, k, out)
    \/ /\ op = "loaded"
       /\ \E t \in QueryTitles : \E k \in KValues : ContentBased(t, k)
    \/ /\ op = "loaded"
       /\ \E u \in UserIds : \E out \in CallOutcomes(ratings_df, u) :
             \E t \in get_movies_list(movies_df) : \E k \in 1..MaxK : \E w \in Weights :
                 Hybrid(u, t, k, w, out)
Spec == Init /\ [][Next]_vars

\* The widgets of app.main on one data set: num_recommendations from its
\* slider (3..15), the weight from its slider, the title from the selectbox.
SliderCatalog == [i \in Rows |-> [movie_id |-> i, title |-> TitleNames[i]]]
InitSlider == InitData(SliderCatalog, SimDistinct, RatingsOf({1}, NComponents + 1, Rows))
NextSlider ==
    \/ Rerun
    \/ /\ op = "loaded"
       /\ \E out \in CallOutcomes(ratings_df, 1) :
             \E t \in get_movies_list(movies_df) : \E k \in MinRecs..MaxRecs :
                 \E w \in Weights : Hybrid(1, t, k, w, out)
SpecSlider == InitSlider /\ [][NextSlider]_vars

\* ================================================================== claims
CatalogTitles == get_movies_list(movies_df)
RatedBy(u) == {r[2] : r \in {x \in ratings_df : x[1] = u}}
ContentReturned == op = "content" /\ raised = "none"
CollabReturned == op = "collaborative" /\ raised = "none"
HybridReturned == op = "hybrid" /\ raised = "none"
QueryRow == CHOOSE i \in Rows : movies_df[i].title = selected_movie

\* C1: for a title of the Catalog and k >= 1, the list returned by
\* recommendSimilarTo(title, k) never contains the query title itself.
C1_NeverReturnsQuery ==
    (ContentReturned /\ num_recommendations >= 1 /\ selected_movie \in CatalogTitles)
        => selected_movie \notin SeqRange(content_recs.titles)

\* C2 as stated: for a user with ratings and k >= 1, no title returned by
\* recommendForUser is the title of a movie_id this user has rated.
C2_NoTitleOfRatedMovie ==
    (CollabReturned /\ num_recommendations >= 1 /\ RatedBy(user_id) # {})
        => \A p \in DOMAIN collab_recs.titles :
              \A i \in Rows :
                  movies_df[i].title = collab_recs.titles[p]
                      => movies_df[i].movie_id \notin RatedBy(user_id)

\* C2 as amended: for a user with ratings and k >= 1, every entry returned by
\* recommendForUser is the title of a catalog row whose movie_id this user
\* has not rated (the same title may belong to another, rated movie).
C2_NoRatedMovie ==
    (CollabReturned /\ num_recommendations >= 1 /\ RatedBy(user_id) # {})
        => \A p \in DOMAIN collab_recs.rows :
              /\ movies_df[collab_recs.rows[p]].movie_id \notin RatedBy(user_id)
              /\ collab_recs.titles[p] = movies_df[collab_recs.rows[p]].title
C2_Witness ==
    /\ CollabReturned /\ num_recommendations >= 1
    /\ \E p \in DOMAIN collab_recs.rows : \E i \in Rows :
          /\ i \in RatedBy(user_id)
          /\ movies_df[i].title = collab_recs.titles[p]
          /\ collab_recs.rows[p] \notin RatedBy(user_id)

\* The reference of C3: the rows other than the query row, by score
\* descending, equal scores in catalog order; the first min(k, n-1) of them.
RefBefore(i, j, row) == row[i] > row[j] \/ (row[i] = row[j] /\ i < j)
RefSimilar(q, k) ==
    LET row == similarity_matrix[q]
        others == Rows \ {q}
        m == Min2(k, Cardinality(others))
        Rank(j) == 1 + Cardinality({i \in others : RefBefore(i, j, row)})
    IN  [p \in 1..m |-> movies_df[CHOOSE j \in others : Rank(j) = p].title]

\* C3: for a title of the Catalog and k >= 1, recommendSimilarTo(title, k)
\* equals the reference: all movies other than the query by score descending,
\* ties in catalog order, the titles of the first min(k, n-1).
C3_EqualsReference ==
    (ContentReturned /\ num_recommendations >= 1 /\ selected_movie \in CatalogTitles)
        => content_recs.titles = RefSimilar(QueryRow, num_recommendations)

\* C4: recommendForUser returns its titles in ranking order: the i-th
\* returned title is the title of the i-th movie of the ranking (by score
\* descending) of the movies the user has not rated.
C4_ReturnedInRankOrder ==
    (CollabReturned /\ num_recommendations >= 1)
        => LET ranked == SelectIn(recommendations, Rows \ RatedBy(user_id))
           IN  \A p \in DOMAIN collab_recs.titles :
                  /\ p <= Len(ranked)
                  /\ collab_recs.titles[p] = movies_df[ranked[p]].title

\* C5: for a user_id without a rating, recommendForUser returns the empty
\* list and raises nothing.
C5_UnknownUserEmpty ==
    (op = "collaborative" /\ RatedBy(user_id) = {})
        => raised = "none" /\ collab_recs.titles = <<>>

\* C6: for a title that is no key of the title index, and every k,
\* recommendSimilarTo returns the empty list and raises nothing.
C6_UnknownTitleEmpty ==
    (op = "content" /\ \A i \in DOMAIN indices : indices[i][1] # selected_movie)
        => raised = "none" /\ content_recs.titles = <<>>
C6_Witness ==
    /\ op = "content"
    /\ selected_movie = NoSuchTitle
    /\ num_recommendations >= 1
    /\ content_recs.titles = <<>>

\* C7: for k >= 1, each of recommendForUser, recommendSimilarTo and
\* recommendHybrid that returns, returns at most k titles, each the title of
\* a Catalog movie.
ResultOf ==
    IF op = "collaborative" THEN collab_recs.titles
    ELSE IF op = "content" THEN content_recs.titles
    ELSE hybrid_recs
C7_AtMostKCatalogTitles ==
    (op \in {"collaborative", "content", "hybrid"} /\ raised = "none"
        /\ num_recommendations >= 1)
        => /\ Len(ResultOf) <= num_recommendations
           /\ SeqRange(ResultOf) \subseteq CatalogTitles
C7_Witness ==
    /\ op = "collaborative" /\ raised = "none"
    /\ num_recommendations >= 1
    /\ Len(collab_recs.titles) = num_recommendations
    /\ Cardinality(Rows \ RatedBy(user_id)) > num_recommendations

\* round(k * (10 - w) / 10) to the nearest integer, halves to even
RoundTenths(n) ==
    LET q == n \div 10
        r == n % 10
    IN  IF r < 5 THEN q
        ELSE IF r > 5 THEN q + 1
        ELSE IF q % 2 = 0 THEN q ELSE q + 1

\* C8: in recommendHybrid collaborative_count = round(k * (1 - weight)),
\* rounded to the nearest, and content_count = k - collaborative_count.
C8_CountIsRounded ==
    HybridReturned
        => /\ collab_count = RoundTenths(num_recommendations * (SliderSteps - hybrid_weight))
           /\ content_count = num_recommendations - collab_count

\* The parts of the merge, stated on the lists the handler holds.
CollabPart == SubSeq(collab_recs.titles, 1, Min2(collab_count, Len(collab_recs.titles)))
ContentPart == SubSeq(content_recs.titles, 1, Min2(content_count, Len(content_recs.titles)))
\* the content results that are appended: not among the collaborative part
\* and not an earlier content result
Appended ==
    {i \in DOMAIN ContentPart :
        /\ ContentPart[i] \notin SeqRange(CollabPart)
        /\ \A j \in 1..(i - 1) : ContentPart[j] # ContentPart[i]}
MergedAsSpecified ==
    /\ Len(hybrid_recs) >= Len(CollabPart)
    /\ SubSeq(hybrid_recs, 1, Len(CollabPart)) = CollabPart
    /\ Len(hybrid_recs) = Len(CollabPart) + Cardinality(Appended)
    /\ \A i \in Appended :
          hybrid_recs[Len(CollabPart) + Cardinality({j \in Appended : j <= i})]
              = ContentPart[i]

\* C9 as stated: the hybrid list is the collaborative results, then the
\* content results in order without those already in the list; its length is
\* collaborative_count plus the number of content results appended.
C9_MergeLengthFromCount ==
    HybridReturned
        => /\ MergedAsSpecified
           /\ Len(hybrid_recs) = collab_count + Cardinality(Appended)

\* C9 as amended: the hybrid list is the collaborative results taken (at
\* most collaborative_count of them), then the content results in order
\* without those already in the list; its length is the number of
\* collaborative results taken plus the number of content results appended,
\* and nothing else is added.
C9_MergeLengthFromTaken ==
    HybridReturned
        => /\ MergedAsSpecified
           /\ Len(hybrid_recs) =
                 Min2(collab_count, Len(collab_recs.titles)) + Cardinality(Appended)
C9_Witness ==
    /\ HybridReturned
    /\ collab_count >= 1 /\ content_count >= 1
    /\ CollabPart # <<>>
    /\ \E i \in DOMAIN ContentPart : ContentPart[i] \in SeqRange(CollabPart)
    /\ Appended # {}
    /\ Len(hybrid_recs) < num_recommendations

\* C10: with weight 0.0 content_count is 0 and every returned title comes
\* from the collaborative list; with weight 1.0 collaborative_count is 0 and
\* every returned title comes from the content list.
C10_ExtremeWeights ==
    HybridReturned
        => /\ hybrid_weight = 0
                => /\ content_count = 0
                   /\ hybrid_recs = CollabPart
           /\ hybrid_weight = SliderSteps
                => /\ collab_count = 0
                   /\ SeqRange(hybrid_recs) \subseteq SeqRange(content_recs.titles)
C10_Witness ==
    /\ HybridReturned
    /\ hybrid_weight = 0
    /\ hybrid_recs # <<>>
    /\ \E t \in SeqRange(content_recs.titles) : t \notin SeqRange(hybrid_recs)

\* C11: a recommend* call with k <= 0 ends in InvalidParameterError and
\* returns no list of titles; a negative k never yields a non-empty result.
C11_InvalidKRejected ==
    (op \in {"collaborative", "content"} /\ num_recommendations <= 0)
        => /\ raised = "InvalidParameterError"
           /\ ResultOf = <<>>

\* C12: in recommendHybrid the collaborative part is what recommendForUser
\* returns when asked for collaborative_count results, and the content
\* candidates are what recommendSimilarTo returns when asked for
\* content_count results.
C12_PartsAsAskedByCount ==
    HybridReturned
        => /\ CollabPart =
                 get_collaborative_recommendations(
                     user_id, ratings_df, movies_df, collab_count, recommendations).titles
           /\ ContentPart =
                 get_content_based_recommendations(
                     selected_movie, movies_df, similarity_matrix, indices,
                     content_count).titles

\* C13: the title index maps every title to exactly one catalog row, and
\* recommendSimilarTo on a title of the Catalog (shared by two movies or
\* not) resolves to one row and returns a list.
C13_OneRowPerTitle ==
    /\ \A t \in CatalogTitles :
          Cardinality({i \in DOMAIN indices : indices[i][1] = t}) = 1
    /\ (op = "content" /\ selected_movie \in CatalogTitles) => raised = "none"

\* C14: when the movie-by-user matrix has fewer than 12 rows or columns,
\* recommendForUser for a user with ratings does not raise and returns a
\* list without the movies the user has rated.
C14_SmallMatrixReturns ==
    (/\ op = "collaborative"
     /\ num_recommendations >= 1
     /\ RatedBy(user_id) # {}
     /\ \/ Cardinality(PivotIndex(ratings_df)) < NComponents
        \/ Cardinality(PivotColumns(ratings_df)) < NComponents)
        => /\ raised = "none"
           /\ \A p \in DOMAIN collab_recs.rows :
                 movies_df[collab_recs.rows[p]].movie_id \notin RatedBy(user_id)

Occurrences(s, t) == Cardinality({i \in DOMAIN s : s[i] = t})

\* C15 as stated: the list of recommendHybrid contains no title twice, also
\* when two movies of the same title are both in the collaborative part.
C15_NoTitleTwice ==
    HybridReturned => \A t \in SeqRange(hybrid_recs) : Occurrences(hybrid_recs, t) = 1

\* C15 as amended: a title occurs in the list of recommendHybrid as often as
\* among the collaborative results taken, and once when it is not among
\* them: the content results never add a second occurrence, while two
\* collaborative results of the same title both stay.
C15_NoTitleAddedTwice ==
    HybridReturned
        => \A t \in SeqRange(hybrid_recs) :
              Occurrences(hybrid_recs, t) = Max2(1, Occurrences(CollabPart, t))
C15_Witness ==
    /\ HybridReturned
    /\ content_count >= 1
    /\ \E t \in SeqRange(CollabPart) : Occurrences(hybrid_recs, t) = 2
    /\ \E t \in SeqRange(ContentPart) : Occurrences(CollabPart, t) = 2

====
